---- MODULE Spec2Model ----
(***************************************************************************)
(* Staff Referral Program (src/app.py): the referral table, the public     *)
(* submission route and the admin routes, as a state machine.              *)
(*                                                                         *)
(* Representation.                                                         *)
(*  - A date string 'YYYY-MM-DD' is the tuple <<y, m, d>> of its three     *)
(*    number fields; the empty string (and SQL NULL in a DATE column) is   *)
(*    <<>>.  A tuple that names no calendar day (<<2025, 2, 30>>) is a     *)
(*    non-empty string that strptime rejects.                              *)
(*  - A datetime is the record [year, month, day].                         *)
(*  - A 'Month Year' string is [month |-> name, year |-> y]; the empty     *)
(*    string is NoPayoutMonth.                                             *)
(*  - A JSON object (request body, `updates`) is a function from the keys  *)
(*    it carries to their values.                                          *)
(*  - The table is the sequence of its rows in insertion order.  A row     *)
(*    holds the columns the handlers read or write after creation; the     *)
(*    remaining columns are write-once copies of form fields.              *)
(***************************************************************************)
EXTENDS Integers, Sequences, FiniteSets, TLC

VARIABLES
    rows,   \* the BigQuery table staff_referral.referrals
    before, \* the table as the last request found it
    nops,   \* number of requests served so far
    last,   \* the last request served: its inputs, response and e-mails
    inflight \* the admin PATCH requests being handled side by side, by worker:
             \* how far each has got and the locals of its handler

vars == <<rows, before, nops, last, inflight>>

(***************************************************************************)
(* Bounds of the model.                                                    *)
(***************************************************************************)
MaxReferrals == 2
MaxOps == 3
MaxFields == 2
FirstYear == 2023
LastYear == 2025

(***************************************************************************)
(* Program constants.                                                      *)
(***************************************************************************)
STATUS_VALUES ==
    <<"Submitted", "Under Review", "Candidate Applied", "Interviewing",
      "Hired", "Eligible", "Paid", "Not Hired", "Withdrawn/Non-responsive",
      "Candidate Left before 60 Days", "Ineligible">>

ADMIN_USERS ==
    <<"sshirey@firstlineschools.org", "brichardson@firstlineschools.org",
      "talent@firstlineschools.org", "hr@firstlineschools.org",
      "awatts@firstlineschools.org", "jlombas@firstlineschools.org",
      "aleibfritz@firstlineschools.org">>

TALENT_TEAM_EMAIL == "talent@firstlineschools.org"
PAYROLL_MANAGER_EMAIL == "aleibfritz@firstlineschools.org"

SIXTY_DAYS == 60
ONE_WEEK == 7
TWO_WEEKS == 14
PAYOUT_STEP_DAYS == 32
LEAD_TEACHER_BONUS == 500
DEFAULT_BONUS == 300

Range(s) == {s[i] : i \in DOMAIN s}

(***************************************************************************)
(* datetime: the proleptic Gregorian calendar of Python's datetime module. *)
(***************************************************************************)
IsLeap(y) == (y % 4 = 0 /\ y % 100 # 0) \/ y % 400 = 0

DaysInMonth(y, m) ==
    IF m = 2 THEN (IF IsLeap(y) THEN 29 ELSE 28)
    ELSE IF m \in {4, 6, 9, 11} THEN 30 ELSE 31

DaysBeforeYear(y) ==
    365 * (y - 1) + ((y - 1) \div 4) - ((y - 1) \div 100) + ((y - 1) \div 400)

RECURSIVE DaysBeforeMonth(_, _)
DaysBeforeMonth(y, m) ==
    IF m = 1 THEN 0 ELSE DaysBeforeMonth(y, m - 1) + DaysInMonth(y, m - 1)

toordinal(dt) == DaysBeforeYear(dt.year) + DaysBeforeMonth(dt.year, dt.month) + dt.day

fromordinal(n) ==
    LET y == CHOOSE yy \in ((n \div 366) + 1)..((n \div 365) + 1) :
                 DaysBeforeYear(yy) < n /\ n <= DaysBeforeYear(yy + 1)
        r == n - DaysBeforeYear(y)
        m == CHOOSE mm \in 1..12 :
                 DaysBeforeMonth(y, mm) < r
                 /\ r <= DaysBeforeMonth(y, mm) + DaysInMonth(y, mm)
    IN  [year |-> y, month |-> m, day |-> r - DaysBeforeMonth(y, m)]

\* dt + timedelta(days=n)
timedelta_add(dt, n) == fromordinal(toordinal(dt) + n)

\* dt.replace(day=1)
replace_day1(dt) == [dt EXCEPT !.day = 1]

\* datetime.strptime(s, '%Y-%m-%d') raises ValueError unless s names a day
strptime_ok(s) ==
    /\ Len(s) = 3
    /\ s[1] \in 1..9999
    /\ s[2] \in 1..12
    /\ s[3] \in 1..DaysInMonth(s[1], s[2])

strptime(s) == [year |-> s[1], month |-> s[2], day |-> s[3]]

\* dt.strftime('%Y-%m-%d')
strftime_ymd(dt) == <<dt.year, dt.month, dt.day>>

MonthNames ==
    <<"January", "February", "March", "April", "May", "June", "July",
      "August", "September", "October", "November", "December">>

NoPayoutMonth == [month |-> "", year |-> 0]

\* dt.strftime('%B %Y')
strftime_BY(dt) == [month |-> MonthNames[dt.month], year |-> dt.year]

\* The derived fields a parseable hire_date adds to `updates` (lines 764-771).
sixty_day_dt(hire_date) == timedelta_add(strptime(hire_date), SIXTY_DAYS)

\* Variant: a 30-day step from the first of the month.
payout_dt_step30(sixty) == replace_day1(timedelta_add(replace_day1(sixty), 30))

payout_dt(sixty) == replace_day1(timedelta_add(replace_day1(sixty), PAYOUT_STEP_DAYS))

\* Variant: the payout month is left for a later step.
derived_dates_sixty_only(hire_date) ==
    LET sixty == sixty_day_dt(hire_date)
    IN  ("sixty_day_date" :> strftime_ymd(sixty))

derived_dates(hire_date) ==
    LET sixty == sixty_day_dt(hire_date)
    IN  ("sixty_day_date" :> strftime_ymd(sixty))
        @@ ("payout_month" :> strftime_BY(payout_dt(sixty)))

(***************************************************************************)
(* Identities and the access gate.                                         *)
(***************************************************************************)
\* session.get('user'): the e-mail of the signed-in identity, "" when the
\* session holds no user.
NoUser == ""
StaffUser == "teacher@firstlineschools.org"
AdminUser == "Talent@FirstLineSchools.org"
Sessions == {NoUser, StaffUser, AdminUser}

\* str.lower() on the e-mail strings of the model; every other e-mail string
\* of the model is already lower case.
LowerTable ==
    ("Talent@FirstLineSchools.org" :> "talent@firstlineschools.org")
    @@ ("Ana@FirstLineSchools.org" :> "ana@firstlineschools.org")
    @@ (" Ana@FirstLineSchools.org" :> " ana@firstlineschools.org")
    @@ ("Bo@FirstLineSchools.org" :> "bo@firstlineschools.org")

\* str.strip() on the strings of the model; no other string of the model
\* has white space at either end.
StripTable ==
    (" ana@firstlineschools.org" :> "ana@firstlineschools.org") @@ (" " :> "")

strip(s) == IF s \in DOMAIN StripTable THEN StripTable[s] ELSE s

lower(s) == IF s \in DOMAIN LowerTable THEN LowerTable[s] ELSE s

\* Variant: any signed-in identity passes.
require_admin_signed_in(user) == IF user = NoUser THEN 401 ELSE 0

\* The decorator's verdict: 0 lets the request through to the handler.
require_admin(user) ==
    IF user = NoUser THEN 401
    ELSE IF lower(user) \notin {lower(e) : e \in Range(ADMIN_USERS)} THEN 403
    ELSE 0

(***************************************************************************)
(* The table and the functions that query it.                              *)
(***************************************************************************)
\* str(uuid.uuid4())[:8].upper(): eight random hex digits.
IdSpace == {"1A2B3C4D", "9F8E7D6C"}

DATE_FIELDS == {"hire_date", "sixty_day_date", "paid_date"}

\* A DATE query parameter is accepted only when it names a calendar day.
date_param_ok(v) == strptime_ok(v)

\* SELECT * ... ORDER BY submitted_at DESC: newest first; [] when the query fails.
RECURSIVE Reverse(_)
Reverse(s) == IF s = <<>> THEN <<>> ELSE Append(Reverse(Tail(s)), Head(s))

read_all_referrals(table, queryOk) == IF queryOk THEN Reverse(table) ELSE <<>>

\* SELECT * ... WHERE referral_id = @referral_id, first row returned: the set
\* of possible results, each <<row>>, or <<>> for None (no row, or the query
\* failed).  The query has no ORDER BY, so any matching row may come first.
get_referral_by_id(table, referral_id, queryOk) ==
    LET hits == {i \in DOMAIN table : table[i].referral_id = referral_id}
    IN  IF queryOk /\ hits # {} THEN {<<table[i]>> : i \in hits} ELSE {<<>>}

\* INSERT INTO ... VALUES (...): is_archived is not among the inserted
\* columns and takes the column default.
append_referral(table, referral, queryOk) ==
    IF queryOk
    THEN [ok |-> TRUE, table |-> Append(table, referral @@ ("is_archived" :> FALSE))]
    ELSE [ok |-> FALSE, table |-> table]

\* Building the SET clause raises when a DATE parameter is no date.
set_clause_ok(updates) ==
    \A f \in DOMAIN updates \cap DATE_FIELDS :
        updates[f] # <<>> => date_param_ok(updates[f])

update_row(row, updates) ==
    [f \in DOMAIN row |-> IF f \in DOMAIN updates THEN updates[f] ELSE row[f]]

\* UPDATE ... SET ... WHERE referral_id = @referral_id
update_referral(table, referral_id, updates, queryOk) ==
    IF DOMAIN updates = {} THEN [ok |-> TRUE, table |-> table]
    ELSE IF ~(queryOk /\ set_clause_ok(updates)) THEN [ok |-> FALSE, table |-> table]
    ELSE [ok |-> TRUE,
          table |-> [i \in DOMAIN table |->
                        IF table[i].referral_id = referral_id
                        THEN update_row(table[i], updates)
                        ELSE table[i]]]

\* Variant: archiving also writes a note on the record.
set_archived_with_note(table, referral_id, flag) ==
    [i \in DOMAIN table |->
        IF table[i].referral_id = referral_id
        THEN [table[i] EXCEPT !.is_archived = flag, !.admin_notes = "archived"]
        ELSE table[i]]

set_archived(table, referral_id, flag) ==
    [i \in DOMAIN table |->
        IF table[i].referral_id = referral_id
        THEN [table[i] EXCEPT !.is_archived = flag]
        ELSE table[i]]

delete_rows(table, referral_id) ==
    SelectSeq(table, LAMBDA r : r.referral_id # referral_id)

(***************************************************************************)
(* E-mails.  send_email returns whether the SMTP hand-over worked; every   *)
(* caller below ignores the result except send_weekly_rollup.              *)
(***************************************************************************)
\* `message` is what the body says beyond the referral's own fields.
Email(kind, to, referral, new_status, message, smtpOk) ==
    [kind |-> kind, to |-> to, referral |-> referral,
     new_status |-> new_status, message |-> message, delivered |-> smtpOk]

send_referral_confirmation(referral, smtpOk) ==
    Email("referral_confirmation", referral.referrer_email, <<referral>>, "", <<>>, smtpOk)

send_new_referral_alert(referral, smtpOk) ==
    Email("new_referral_alert", TALENT_TEAM_EMAIL, <<referral>>, "", <<>>, smtpOk)

\* The statuses that have a sentence of their own in send_status_update.
status_messages ==
    {"Under Review", "Candidate Applied", "Interviewing", "Hired", "Eligible",
     "Paid", "Not Hired", "Withdrawn/Non-responsive",
     "Candidate Left before 60 Days", "Ineligible"}

\* status_messages.get(new_status, f"The status has been updated to: ...")
status_message(new_status) ==
    IF new_status \in status_messages
    THEN <<"template", new_status>>
    ELSE <<"generic", new_status>>

send_status_update(referral, old_status, new_status, smtpOk) ==
    Email("status_update", referral.referrer_email, <<referral>>, new_status,
          status_message(new_status), smtpOk)

send_eligible_payout_alert(referral, smtpOk) ==
    Email("payout_alert", PAYROLL_MANAGER_EMAIL, <<referral>>, "", <<>>, smtpOk)

\* The weekly rollup.  Times are kept to the day: is_after(dt_str, t) is
\* "on a later day than t".
is_after(dt_str, compare_to) ==
    dt_str # <<>> /\ toordinal(strptime(dt_str)) > toordinal(strptime(compare_to))

days_from(now, n) == strftime_ymd(timedelta_add(strptime(now), n))

\* The 60-day date falls within the two weeks that start today.
upcoming(r, now) ==
    /\ r.status = "Hired"
    /\ r.sixty_day_date # <<>>
    /\ strptime_ok(r.sixty_day_date)
    /\ toordinal(strptime(now)) <= toordinal(strptime(r.sixty_day_date))
    /\ toordinal(strptime(r.sixty_day_date)) <= toordinal(strptime(now)) + TWO_WEEKS

\* Variant: the 60-day completions are left out of the closing item.
action_items_without_upcoming(needs_review, ready_for_payout, upcoming_eligible) ==
    (IF needs_review # <<>> THEN {"review"} ELSE {})
    \cup (IF ready_for_payout # <<>> THEN {"payout"} ELSE {})
    \cup (IF upcoming_eligible # <<>> THEN {"sixty_day"} ELSE {})
    \cup (IF needs_review = <<>> /\ ready_for_payout = <<>>
          THEN {"all_caught_up"} ELSE {})

\* The <li> items of the 'Action Items' box (lines 1056-1059).
action_items(needs_review, ready_for_payout, upcoming_eligible) ==
    (IF needs_review # <<>> THEN {"review"} ELSE {})
    \cup (IF ready_for_payout # <<>> THEN {"payout"} ELSE {})
    \cup (IF upcoming_eligible # <<>> THEN {"sixty_day"} ELSE {})
    \cup (IF needs_review = <<>> /\ ready_for_payout = <<>> /\ upcoming_eligible = <<>>
          THEN {"all_caught_up"} ELSE {})

rollup_sections(referrals, now) ==
    LET needs_review ==
            SelectSeq(referrals, LAMBDA r : r.status \in {"Submitted", "Under Review"})
        upcoming_eligible == SelectSeq(referrals, LAMBDA r : upcoming(r, now))
        ready_for_payout == SelectSeq(referrals, LAMBDA r : r.status = "Eligible")
    IN  [new_referrals |->
             SelectSeq(referrals,
                       LAMBDA r : is_after(r.submitted_at, days_from(now, 0 - ONE_WEEK))),
         needs_review |-> needs_review,
         interviewing |-> SelectSeq(referrals, LAMBDA r : r.status = "Interviewing"),
         hired_waiting |-> SelectSeq(referrals, LAMBDA r : r.status = "Hired"),
         upcoming_eligible |-> upcoming_eligible,
         ready_for_payout |-> ready_for_payout,
         action_items |-> action_items(needs_review, ready_for_payout, upcoming_eligible)]

send_weekly_rollup(table, now, queryOk, smtpOk) ==
    Email("weekly_rollup", TALENT_TEAM_EMAIL, read_all_referrals(table, queryOk), "",
          rollup_sections(read_all_referrals(table, queryOk), now), smtpOk)

(***************************************************************************)
(* Request inputs.                                                         *)
(***************************************************************************)
REQUIRED_FIELDS ==
    <<"referrer_name", "referrer_email", "referrer_school", "candidate_name",
      "candidate_email", "position", "position_type", "relationship">>

Form(email, ptype) ==
    [referrer_name |-> "Ana", referrer_email |-> email, referrer_school |-> "Green",
     candidate_name |-> "Cy", candidate_email |-> "cy@example.org",
     position |-> "Teacher", position_type |-> ptype, relationship |-> "Friend"]

Without(f, k) == [x \in DOMAIN f \ {k} |-> f[x]]

\* Bodies of POST /api/referrals: complete forms, a form with an empty
\* required field and, for each required field, a form that lacks it.
CompleteForms ==
    {Form("Ana@FirstLineSchools.org", p) : p \in {"Lead Teacher", "Lead teacher"}}

IncompleteForms ==
    {Form("Ana@FirstLineSchools.org", "")}
    \cup {Without(Form("Ana@FirstLineSchools.org", "Lead teacher"), REQUIRED_FIELDS[i]) :
             i \in DOMAIN REQUIRED_FIELDS}

SubmitForms == CompleteForms \cup IncompleteForms

\* The email argument of GET /api/referrals/lookup: an address, or none.
LookupQueries == {"Ana@FirstLineSchools.org", ""}

\* datetime.now(), to the day.
Clock == {<<2025, 3, 1>>}

PATCH_FIELDS ==
    <<"status", "hire_date", "position", "position_type", "bonus_amount",
      "paid_date", "admin_notes">>

\* Values a PATCH body may carry for each key.  "Approved" is no status;
\* <<>> is null or ''; <<2025, 2, 30>> is a date string that names no day;
\* a bonus_amount arrives as the JSON text of the value.
PatchValues(k) ==
    CASE k = "status" -> {"Hired", "Eligible", "Approved"}
      [] k = "hire_date" -> {<<>>, <<2025, 1, 1>>, <<2025, 2, 30>>}
      [] k = "position" -> {"Dean"}
      [] k = "position_type" -> {"Lead Teacher"}
      [] k = "bonus_amount" -> {"750", "abc"}
      [] k = "paid_date" -> {<<2025, 6, 30>>}
      [] k = "admin_notes" -> {"checked references"}

RECURSIVE BodiesOver(_)
BodiesOver(keys) ==
    IF keys = {} THEN {<<>>}
    ELSE LET k == CHOOSE x \in keys : TRUE
         IN  {b @@ (k :> v) : b \in BodiesOver(keys \ {k}), v \in PatchValues(k)}

\* Bodies of PATCH /api/admin/referrals/<id>: at most MaxFields keys.
PatchBodies ==
    UNION {BodiesOver(ks) : ks \in {K \in SUBSET Range(PATCH_FIELDS) : Cardinality(K) <= MaxFields}}

\* int(value): the number a JSON value converts to; raises on other text.
IntTable == ("750" :> 750) @@ ("300" :> 300) @@ ("500" :> 500)
int_ok(v) == v \in DOMAIN IntTable
int(v) == IntTable[v]

(***************************************************************************)
(* The state.                                                              *)
(***************************************************************************)
\* What `last` records of a request: the route, the session's user, the
\* <referral_id> of the URL (of the new row, for a submission), the JSON
\* body, the store queries that failed, the HTTP status code, the e-mails
\* handed to send_email, the row read by get_referral_by_id and the JSON
\* body of the response.
Served(op, user, id, data, failed, code, emails, current, body) ==
    [op |-> op, user |-> user, id |-> id, data |-> data, failed |-> failed,
     code |-> code, emails |-> emails, current |-> current, body |-> body]

Init ==
    /\ rows = <<>>
    /\ before = <<>>
    /\ nops = 0
    /\ inflight = <<>>
    /\ last = Served("none", NoUser, "", <<>>, {}, 0, <<>>, <<>>, <<>>)

Failed(name, ok) == IF ok THEN {} ELSE {name}

(***************************************************************************)
(* POST /api/referrals                                                     *)
(***************************************************************************)
\* Variant: the last required field is not looked at.
missing_required_but_last(data) ==
    \E i \in DOMAIN REQUIRED_FIELDS \ {Len(REQUIRED_FIELDS)} :
        REQUIRED_FIELDS[i] \notin DOMAIN data \/ data[REQUIRED_FIELDS[i]] = ""

missing_required(data) ==
    \E i \in DOMAIN REQUIRED_FIELDS :
        REQUIRED_FIELDS[i] \notin DOMAIN data \/ data[REQUIRED_FIELDS[i]] = ""

\* Variant: position_type compared without regard to case.
bonus_for_any_case(position_type) ==
    IF position_type \in {"Lead Teacher", "Lead teacher"}
    THEN LEAD_TEACHER_BONUS ELSE DEFAULT_BONUS

bonus_for(position_type) ==
    IF position_type = "Lead Teacher" THEN LEAD_TEACHER_BONUS ELSE DEFAULT_BONUS

\* Variant: the record is built without its status.
new_referral_without_status(referral_id, data, now) ==
    [referral_id |-> referral_id,
     submitted_at |-> now,
     referrer_email |-> lower(data.referrer_email),
     position |-> data.position,
     position_type |-> data.position_type,
     bonus_amount |-> bonus_for(data.position_type),
     status |-> "",
     status_updated_at |-> now,
     status_updated_by |-> "System",
     hire_date |-> <<>>,
     sixty_day_date |-> <<>>,
     payout_month |-> NoPayoutMonth,
     paid_date |-> <<>>,
     admin_notes |-> ""]

new_referral(referral_id, data, now) ==
    [referral_id |-> referral_id,
     submitted_at |-> now,
     referrer_email |-> lower(data.referrer_email),
     position |-> data.position,
     position_type |-> data.position_type,
     bonus_amount |-> bonus_for(data.position_type),
     status |-> "Submitted",
     status_updated_at |-> now,
     status_updated_by |-> "System",
     hire_date |-> <<>>,
     sixty_day_date |-> <<>>,
     payout_month |-> NoPayoutMonth,
     paid_date |-> <<>>,
     admin_notes |-> ""]

\* Variant: a notification that could not be handed over fails the request.
submitted_if_notified(data, referral, smtpOk, alertOk) ==
    Served("submit", NoUser, referral.referral_id, data, {},
           IF smtpOk /\ alertOk THEN 200 ELSE 500,
           <<send_referral_confirmation(referral, smtpOk),
             send_new_referral_alert(referral, alertOk)>>,
           <<>>,
           IF smtpOk /\ alertOk
           THEN [referral_id |-> referral.referral_id,
                 bonus_amount |-> referral.bonus_amount]
           ELSE <<>>)

\* What follows a successful insert (lines 586-595): both notifications,
\* whose results are dropped, then the success response.
submitted(data, referral, smtpOk, alertOk) ==
    Served("submit", NoUser, referral.referral_id, data, {}, 200,
           <<send_referral_confirmation(referral, smtpOk),
             send_new_referral_alert(referral, alertOk)>>,
           <<>>,
           [referral_id |-> referral.referral_id,
            bonus_amount |-> referral.bonus_amount])

submit_referral(data) ==
    /\ nops < MaxOps
    /\ Len(rows) < MaxReferrals
    /\ nops' = nops + 1
    /\ inflight' = inflight
    /\ before' = rows
    /\ IF missing_required(data)
       THEN /\ rows' = rows
            /\ last' = Served("submit", NoUser, "", data, {}, 400, <<>>, <<>>, <<>>)
       ELSE \E referral_id \in IdSpace, now \in Clock, insertOk \in BOOLEAN :
              LET referral == new_referral(referral_id, data, now)
                  res == append_referral(rows, referral, insertOk)
              IN  /\ rows' = res.table
                  /\ IF res.ok
                     THEN \E smtpOk \in BOOLEAN, alertOk \in BOOLEAN :
                            last' = submitted(data, referral, smtpOk, alertOk)
                     ELSE last' = Served("submit", NoUser, referral_id, data, {"insert"},
                                         500, <<>>, <<>>, <<>>)

(***************************************************************************)
(* The access gate in front of every admin route: the decorator answers    *)
(* before the handler runs, so the handler's inputs are never read.        *)
(***************************************************************************)
Rejected(op, user, referral_id) ==
    Served(op, user, referral_id, <<>>, {}, require_admin(user), <<>>, <<>>, <<>>)

(***************************************************************************)
(* PATCH /api/admin/referrals/<referral_id>                                *)
(***************************************************************************)
\* Variant: the vocabulary still lists a retired value.
status_invalid_legacy(data) ==
    "status" \in DOMAIN data /\ data.status \notin Range(STATUS_VALUES) \cup {"Approved"}

status_invalid(data) ==
    "status" \in DOMAIN data /\ data.status \notin Range(STATUS_VALUES)

\* Variant: the editor is not written with the status.
status_updates_without_editor(data, user, now) ==
    IF "status" \in DOMAIN data
    THEN [status |-> data.status, status_updated_at |-> now]
    ELSE <<>>

status_updates(data, user, now) ==
    IF "status" \in DOMAIN data
    THEN [status |-> data.status, status_updated_at |-> now, status_updated_by |-> user]
    ELSE <<>>

hire_date_updates(data) ==
    IF "hire_date" \in DOMAIN data
    THEN ("hire_date" :> data.hire_date)
         @@ (IF data.hire_date # <<>> /\ strptime_ok(data.hire_date)
             THEN derived_dates(data.hire_date)
             ELSE <<>>)
    ELSE <<>>

\* Variant: a new position_type recomputes the bonus.
position_updates_rebonus(data) ==
    (IF "position" \in DOMAIN data THEN ("position" :> data.position) ELSE <<>>)
    @@ (IF "bonus_amount" \in DOMAIN data
        THEN ("bonus_amount" :> int(data.bonus_amount)) ELSE <<>>)
    @@ (IF "position_type" \in DOMAIN data
        THEN [position_type |-> data.position_type,
              bonus_amount |-> bonus_for(data.position_type)]
        ELSE <<>>)

position_updates(data) ==
    (IF "position" \in DOMAIN data THEN ("position" :> data.position) ELSE <<>>)
    @@ (IF "position_type" \in DOMAIN data
        THEN ("position_type" :> data.position_type) ELSE <<>>)
    @@ (IF "bonus_amount" \in DOMAIN data
        THEN ("bonus_amount" :> int(data.bonus_amount)) ELSE <<>>)

other_updates(data) ==
    (IF "paid_date" \in DOMAIN data THEN ("paid_date" :> data.paid_date) ELSE <<>>)
    @@ (IF "admin_notes" \in DOMAIN data
        THEN ("admin_notes" :> data.admin_notes) ELSE <<>>)

\* The `updates` dict of a body that passed the status check.
build_updates(data, user, now) ==
    status_updates(data, user, now) @@ hire_date_updates(data)
    @@ position_updates(data) @@ other_updates(data)

\* int(data['bonus_amount']) raises ValueError, caught by the handler's
\* outer except.
bonus_raises(data) == "bonus_amount" \in DOMAIN data /\ ~int_ok(data.bonus_amount)

\* Variant: no comparison with the old status.
status_changed_unconditional(data, current) ==
    /\ "status" \in DOMAIN data
    /\ data.status # ""
    /\ current # <<>>
    /\ current[1].status # ""

\* Whether the handler sends e-mails after a successful update (line 790).
status_changed(data, current) ==
    /\ "status" \in DOMAIN data
    /\ data.status # ""
    /\ current # <<>>
    /\ current[1].status # ""
    /\ data.status # current[1].status

\* Variant: the e-mails are built from the referral as the body leaves it.
status_emails_as_updated(data, current, smtpOk, alertOk) ==
    LET updated == update_row(current[1], hire_date_updates(data) @@ position_updates(data))
    IN  <<send_status_update(updated, current[1].status, data.status, smtpOk)>>
        \o (IF data.status = "Eligible"
            THEN <<send_eligible_payout_alert(updated, alertOk)>>
            ELSE <<>>)

\* The e-mails sent then (lines 791-795).
status_emails(data, current, smtpOk, alertOk) ==
    <<send_status_update(current[1], current[1].status, data.status, smtpOk)>>
    \o (IF data.status = "Eligible"
        THEN <<send_eligible_payout_alert(current[1], alertOk)>>
        ELSE <<>>)

update_referral_status(user, referral_id, bodies) ==
    /\ nops < MaxOps
    /\ nops' = nops + 1
    /\ inflight' = inflight
    /\ before' = rows
    /\ IF require_admin(user) # 0
       THEN /\ rows' = rows
            /\ last' = Rejected("patch", user, referral_id)
       ELSE \E data \in bodies, selectOk \in BOOLEAN, now \in Clock :
            \E current \in get_referral_by_id(rows, referral_id, selectOk) :
              LET readFailed == Failed("select", selectOk) IN
              IF status_invalid(data)
              THEN /\ rows' = rows
                   /\ last' = Served("patch", user, referral_id, data, readFailed,
                                     400, <<>>, current, <<>>)
              ELSE IF bonus_raises(data)
              THEN /\ rows' = rows
                   /\ last' = Served("patch", user, referral_id, data, readFailed,
                                     500, <<>>, current, <<>>)
              ELSE \E updateOk \in (IF DOMAIN build_updates(data, user, now) = {}
                                    THEN {TRUE} ELSE BOOLEAN) :
                   LET res == update_referral(rows, referral_id,
                                              build_updates(data, user, now), updateOk)
                       failed == readFailed \cup Failed("update", updateOk)
                   IN  /\ rows' = res.table
                       /\ IF ~res.ok
                          THEN last' = Served("patch", user, referral_id, data, failed,
                                              404, <<>>, current, <<>>)
                          ELSE IF status_changed(data, current)
                          THEN \E smtpOk \in BOOLEAN :
                               \E alertOk \in (IF data.status = "Eligible"
                                               THEN BOOLEAN ELSE {TRUE}) :
                                 last' = Served("patch", user, referral_id, data, failed,
                                                200,
                                                status_emails(data, current, smtpOk, alertOk),
                                                current, <<>>)
                          ELSE last' = Served("patch", user, referral_id, data, failed,
                                              200, <<>>, current, <<>>)

(***************************************************************************)
(* DELETE /api/admin/referrals/<id>, PATCH .../archive, PATCH .../unarchive *)
(***************************************************************************)
\* One DML statement keyed by referral_id; `table` is the table after it.
admin_dml(op, user, referral_id, table) ==
    /\ nops < MaxOps
    /\ nops' = nops + 1
    /\ inflight' = inflight
    /\ before' = rows
    /\ IF require_admin(user) # 0
       THEN /\ rows' = rows
            /\ last' = Rejected(op, user, referral_id)
       ELSE \E queryOk \in BOOLEAN :
            /\ rows' = IF queryOk THEN table ELSE rows
            /\ last' = Served(op, user, referral_id, <<>>, Failed(op, queryOk),
                              IF queryOk THEN 200 ELSE 500, <<>>, <<>>, <<>>)

delete_referral(user, referral_id) ==
    admin_dml("delete", user, referral_id, delete_rows(rows, referral_id))

archive_referral(user, referral_id) ==
    admin_dml("archive", user, referral_id, set_archived(rows, referral_id, TRUE))

unarchive_referral(user, referral_id) ==
    admin_dml("unarchive", user, referral_id, set_archived(rows, referral_id, FALSE))

(***************************************************************************)
(* GET /api/admin/referrals, GET /api/admin/stats, POST /api/admin/test-rollup *)
(***************************************************************************)
RECURSIVE SumBonus(_)
SumBonus(s) == IF s = <<>> THEN 0 ELSE Head(s).bonus_amount + SumBonus(Tail(s))

WithStatus(s, statuses) == SelectSeq(s, LAMBDA r : r.status \in statuses)

\* Variant: archived referrals are not set aside.
stats_of_all(all_referrals) ==
    LET referrals == all_referrals
    IN  [total |-> Len(referrals),
         pending_review |-> Len(WithStatus(referrals, {"Submitted", "Under Review"})),
         in_progress |-> Len(WithStatus(referrals, {"Candidate Applied", "Interviewing"})),
         hired_pending |-> Len(WithStatus(referrals, {"Hired", "Eligible"})),
         paid_count |-> Len(WithStatus(referrals, {"Paid"})),
         bonuses_paid |-> SumBonus(WithStatus(referrals, {"Paid"})),
         bonuses_pending |-> SumBonus(WithStatus(referrals, {"Hired", "Eligible"})),
         not_hired |-> Len(WithStatus(referrals,
                           {"Not Hired", "Candidate Left before 60 Days", "Ineligible"}))]

stats_of(all_referrals) ==
    LET referrals == SelectSeq(all_referrals, LAMBDA r : ~r.is_archived)
    IN  [total |-> Len(referrals),
         pending_review |-> Len(WithStatus(referrals, {"Submitted", "Under Review"})),
         in_progress |-> Len(WithStatus(referrals, {"Candidate Applied", "Interviewing"})),
         hired_pending |-> Len(WithStatus(referrals, {"Hired", "Eligible"})),
         paid_count |-> Len(WithStatus(referrals, {"Paid"})),
         bonuses_paid |-> SumBonus(WithStatus(referrals, {"Paid"})),
         bonuses_pending |-> SumBonus(WithStatus(referrals, {"Hired", "Eligible"})),
         not_hired |-> Len(WithStatus(referrals,
                           {"Not Hired", "Candidate Left before 60 Days", "Ineligible"}))]

get_all_referrals(user) ==
    /\ nops < MaxOps
    /\ nops' = nops + 1
    /\ inflight' = inflight
    /\ rows' = rows
    /\ before' = rows
    /\ IF require_admin(user) # 0
       THEN last' = Rejected("list", user, "")
       ELSE \E selectOk \in BOOLEAN :
              last' = Served("list", user, "", <<>>, Failed("select", selectOk), 200,
                             <<>>, <<>>,
                             [referrals |-> read_all_referrals(rows, selectOk)])

get_stats(user) ==
    /\ nops < MaxOps
    /\ nops' = nops + 1
    /\ inflight' = inflight
    /\ rows' = rows
    /\ before' = rows
    /\ IF require_admin(user) # 0
       THEN last' = Rejected("stats", user, "")
       ELSE \E selectOk \in BOOLEAN :
              last' = Served("stats", user, "", <<>>, Failed("select", selectOk), 200,
                             <<>>, <<>>,
                             stats_of(read_all_referrals(rows, selectOk)))

\* The body of both rollup routes: send, and answer by the result.  The
\* clock reads no day earlier than a stored submitted_at.
rollup_served(op, user, clock) ==
    \E now \in {n \in clock : \A i \in DOMAIN rows : ~is_after(rows[i].submitted_at, n)},
       selectOk \in BOOLEAN, smtpOk \in BOOLEAN :
        last' = Served(op, user, "", [now |-> now], Failed("select", selectOk),
                       IF smtpOk THEN 200 ELSE 500,
                       <<send_weekly_rollup(rows, now, selectOk, smtpOk)>>, <<>>, <<>>)

test_rollup(user, clock) ==
    /\ nops < MaxOps
    /\ nops' = nops + 1
    /\ inflight' = inflight
    /\ rows' = rows
    /\ before' = rows
    /\ IF require_admin(user) # 0
       THEN last' = Rejected("test_rollup", user, "")
       ELSE rollup_served("test_rollup", user, clock)

\* POST /api/weekly-rollup: let through by the X-CloudScheduler header or
\* the shared secret, else 401.
trigger_weekly_rollup(authorized, clock) ==
    /\ nops < MaxOps
    /\ nops' = nops + 1
    /\ inflight' = inflight
    /\ rows' = rows
    /\ before' = rows
    /\ IF ~authorized
       THEN last' = Served("weekly_rollup", NoUser, "", <<>>, {}, 401, <<>>, <<>>, <<>>)
       ELSE rollup_served("weekly_rollup", NoUser, clock)

(***************************************************************************)
(* GET /api/referrals/lookup?email=...                                     *)
(***************************************************************************)
PENDING_STATUSES ==
    {"Submitted", "Under Review", "Candidate Applied", "Interviewing", "Hired", "Eligible"}

lookup_of(all_referrals, email) ==
    LET user_referrals ==
            SelectSeq(all_referrals, LAMBDA r : lower(r.referrer_email) = email)
    IN  [referrals |-> [j \in DOMAIN user_referrals |->
                           Without(user_referrals[j], "admin_notes")],
         total_pending |-> SumBonus(WithStatus(user_referrals, PENDING_STATUSES)),
         total_paid |-> SumBonus(WithStatus(user_referrals, {"Paid"}))]

lookup_referrals(query) ==
    /\ nops < MaxOps
    /\ nops' = nops + 1
    /\ inflight' = inflight
    /\ rows' = rows
    /\ before' = rows
    /\ LET email == strip(lower(query)) IN
       IF email = ""
       THEN last' = Served("lookup", NoUser, "", [email |-> query], {}, 400,
                           <<>>, <<>>, <<>>)
       ELSE \E selectOk \in BOOLEAN :
              last' = Served("lookup", NoUser, "", [email |-> query],
                             Failed("select", selectOk), 200, <<>>, <<>>,
                             lookup_of(read_all_referrals(rows, selectOk), email))

(***************************************************************************)
(* The system: any request, with any session, at any time.                 *)
(***************************************************************************)
Next ==
    \/ \E data \in SubmitForms : submit_referral(data)
    \/ \E user \in Sessions, id \in IdSpace : update_referral_status(user, id, PatchBodies)
    \/ \E user \in Sessions, id \in IdSpace : delete_referral(user, id)
    \/ \E user \in Sessions, id \in IdSpace : archive_referral(user, id)
    \/ \E user \in Sessions, id \in IdSpace : unarchive_referral(user, id)
    \/ \E user \in Sessions : get_all_referrals(user)
    \/ \E user \in Sessions : get_stats(user)
    \/ \E user \in Sessions : test_rollup(user, Clock)
    \/ \E authorized \in BOOLEAN : trigger_weekly_rollup(authorized, Clock)
    \/ \E query \in LookupQueries : lookup_referrals(query)

Spec == Init /\ [][Next]_vars

(***************************************************************************)
(* The hire-date arithmetic on its own: one stored referral, and an admin  *)
(* PATCH of hire_date with any day of FirstYear..LastYear, or a 30th or    *)
(* 31st that its month lacks.                                              *)
(***************************************************************************)
DateStrings == {<<y, m, d>> : y \in FirstYear..LastYear, m \in 1..12, d \in 28..31}
               \cup {s \in {<<y, m, d>> : y \in FirstYear..LastYear, m \in 1..12, d \in 1..27} :
                        strptime_ok(s)}

HireDateBodies == {[hire_date |-> s] : s \in DateStrings}

InitDates ==
    /\ \E now \in Clock :
          rows = append_referral(<<>>, new_referral("1A2B3C4D",
                        Form("Ana@FirstLineSchools.org", "Lead teacher"), now), TRUE).table
    /\ before = rows
    /\ nops = MaxOps - 1
    /\ inflight = <<>>
    /\ last = Rejected("archive", StaffUser, "1A2B3C4D")

NextDates == update_referral_status(AdminUser, "1A2B3C4D", HireDateBodies)

SpecDates == InitDates /\ [][NextDates]_vars

(***************************************************************************)
(* Stored referrals in any status.  A row is built the way the program     *)
(* builds it: submitted, then moved by an admin PATCH.                     *)
(***************************************************************************)
StoredRow(referral_id, email, ptype, body, now) ==
    LET submittedTable ==
            append_referral(<<>>, new_referral(referral_id, Form(email, ptype), now),
                            TRUE).table
    IN  update_referral(submittedTable, referral_id,
                        build_updates(body, AdminUser, now), TRUE).table[1]

(***************************************************************************)
(* The status vocabulary on its own: one stored referral in any status,    *)
(* and an admin PATCH of its status to any value.                          *)
(***************************************************************************)
StatusBodies == {[status |-> s] : s \in Range(STATUS_VALUES) \cup {"Approved"}}

InitStatus ==
    /\ \E s \in Range(STATUS_VALUES), now \in Clock :
          rows = <<StoredRow("1A2B3C4D", "Ana@FirstLineSchools.org", "Lead Teacher",
                             [status |-> s], now)>>
    /\ before = rows
    /\ nops = MaxOps - 1
    /\ inflight = <<>>
    /\ last = Rejected("archive", StaffUser, "1A2B3C4D")

NextStatus == update_referral_status(AdminUser, "1A2B3C4D", StatusBodies)

SpecStatus == InitStatus /\ [][NextStatus]_vars

(***************************************************************************)
(* Tables of stored referrals: up to n rows, the k-th drawn from R[IdAt(k)]. *)
(***************************************************************************)
IdAt(k) == IF k % 2 = 1 THEN "1A2B3C4D" ELSE "9F8E7D6C"

RECURSIVE TablesUpTo(_, _)
TablesUpTo(R, n) ==
    IF n = 0 THEN {<<>>}
    ELSE LET shorter == TablesUpTo(R, n - 1)
         IN  shorter \cup {Append(t, r) : t \in {x \in shorter : Len(x) = n - 1},
                                          r \in R[IdAt(n)]}

AtRest == Served("none", NoUser, "", <<>>, {}, 0, <<>>, <<>>, <<>>)

(***************************************************************************)
(* The archive flag and the dashboard: referrals in any status, archived   *)
(* or not, then archive and unarchive requests, the listing and the stats. *)
(***************************************************************************)
ArchiveRows ==
    [id \in IdSpace |->
        {set_archived(<<StoredRow(id, "Ana@FirstLineSchools.org", p, [status |-> s], now)>>,
                      id, a)[1] :
            s \in Range(STATUS_VALUES), p \in {"Lead Teacher", "Lead teacher"},
            a \in BOOLEAN, now \in Clock}]

InitArchive ==
    /\ rows \in TablesUpTo(ArchiveRows, MaxReferrals)
    /\ before = rows
    /\ nops = MaxOps - 2
    /\ inflight = <<>>
    /\ last = AtRest

NextArchive ==
    \/ \E id \in IdSpace : archive_referral(AdminUser, id)
    \/ \E id \in IdSpace : unarchive_referral(AdminUser, id)
    \/ get_all_referrals(AdminUser)
    \/ get_stats(AdminUser)

SpecArchive == InitArchive /\ [][NextArchive]_vars

(***************************************************************************)
(* The lookup on its own: referrals of two referrers in any status, one of *)
(* whom typed a blank before the address, and a lookup by either address   *)
(* as it was typed, or by none.                                            *)
(***************************************************************************)
ReferrerEmails == {" Ana@FirstLineSchools.org", "bo@firstlineschools.org"}

ReferrerQueries == {" Ana@FirstLineSchools.org", "Bo@FirstLineSchools.org", "", " "}

LookupRows ==
    [id \in IdSpace |->
        {StoredRow(id, e, p, [status |-> s, admin_notes |-> "checked references"], now) :
            e \in ReferrerEmails, p \in {"Lead Teacher", "Lead teacher"},
            s \in Range(STATUS_VALUES), now \in Clock}]

InitLookup ==
    /\ rows \in TablesUpTo(LookupRows, MaxReferrals)
    /\ before = rows
    /\ nops = MaxOps - 1
    /\ inflight = <<>>
    /\ last = AtRest

NextLookup == \E query \in ReferrerQueries : lookup_referrals(query)

SpecLookup == InitLookup /\ [][NextLookup]_vars

(***************************************************************************)
(* The weekly rollup on its own: referrals in any status with their dates, *)
(* and the rollup run on one of two days by either route.                  *)
(***************************************************************************)
RollupClock == {<<2025, 3, 1>>, <<2025, 3, 10>>}

\* <<submitted_at, hire_date>>: submitted this week or long ago; if long
\* ago, not hired, or hired on a day whose 60-day date is past or near.
RollupDays ==
    {<<<<2025, 2, 26>>, <<>>>>, <<<<2024, 11, 20>>, <<>>>>,
     <<<<2024, 11, 20>>, <<2024, 12, 1>>>>, <<<<2024, 11, 20>>, <<2025, 1, 5>>>>}

RollupRows ==
    [id \in IdSpace |->
        {StoredRow(id, "Ana@FirstLineSchools.org", "Lead Teacher",
                   [status |-> s]
                   @@ (IF d[2] = <<>> THEN <<>> ELSE [hire_date |-> d[2]]), d[1]) :
            s \in Range(STATUS_VALUES), d \in RollupDays}]

InitRollup ==
    /\ rows \in TablesUpTo(RollupRows, MaxReferrals)
    /\ before = rows
    /\ nops = MaxOps - 1
    /\ inflight = <<>>
    /\ last = AtRest

NextRollup ==
    \/ test_rollup(AdminUser, RollupClock)
    \/ \E authorized \in BOOLEAN : trigger_weekly_rollup(authorized, RollupClock)

SpecRollup == InitRollup /\ [][NextRollup]_vars

(***************************************************************************)
(* Admin PATCH requests handled side by side.  app.run serves each request *)
(* on a worker of its own, and update_referral_status holds no lock        *)
(* between its SELECT (line 741), its UPDATE (line 788) and its e-mails    *)
(* (lines 790-795): the steps of two requests interleave freely.  Each     *)
(* statement on the table is atomic.  Here one stored referral and two     *)
(* admins, each sending one PATCH that sets its status.                    *)
(***************************************************************************)
RaceId == "1A2B3C4D"

\* The signed-in admin of each worker's request.
RaceUsers == <<AdminUser, "hr@firstlineschools.org">>

\* datetime.now() of line 754, to the day.
RaceClock == {<<2025, 3, 1>>, <<2025, 3, 2>>}

RaceBodies ==
    {[status |-> s] : s \in {"Eligible", "Paid", "Approved"}}
    \cup {[status |-> "Hired", bonus_amount |-> "750"]}

\* A worker's request: where its handler stands (pc), the handler's locals
\* (data, current, now, ok, code, emails), and two records of what its
\* UPDATE did: the rows it matched as it found them (found) and its
\* place in the order of the UPDATEs applied to the table (seq, 0 for none).
Idle ==
    [pc |-> "idle", data |-> <<>>, current |-> <<>>, failed |-> {}, now |-> <<>>,
     ok |-> FALSE, found |-> <<>>, seq |-> 0, code |-> 0, emails |-> <<>>]

\* What the handler does once update_referral has returned, ignoring ok.
patch_response_notify_first(ok, data, current, smtpOk, alertOk) ==
    [code |-> IF ok THEN 200 ELSE 404,
     emails |-> IF status_changed(data, current)
                THEN status_emails(data, current, smtpOk, alertOk)
                ELSE <<>>]

\* Lines 788-799: what the handler does once update_referral has returned.
patch_response(ok, data, current, smtpOk, alertOk) ==
    IF ~ok THEN [code |-> 404, emails |-> <<>>]
    ELSE [code |-> 200,
          emails |-> IF status_changed(data, current)
                     THEN status_emails(data, current, smtpOk, alertOk)
                     ELSE <<>>]

\* The response of worker w leaves the handler.
patch_served(w, req) ==
    /\ inflight' = [inflight EXCEPT ![w] = req]
    /\ nops' = nops + 1
    /\ last' = Served("patch", RaceUsers[w], RaceId, req.data, req.failed, req.code,
                      req.emails, req.current, <<>>)

\* Lines 736-742: the body, the session and the referral as stored now.
patch_read(w) ==
    /\ inflight[w].pc = "idle"
    /\ \E data \in RaceBodies, selectOk \in BOOLEAN :
       \E current \in get_referral_by_id(rows, RaceId, selectOk) :
          inflight' = [inflight EXCEPT ![w] =
                          [@ EXCEPT !.pc = "read", !.data = data, !.current = current,
                                    !.failed = Failed("select", selectOk)]]
    /\ UNCHANGED <<rows, before, nops, last>>

\* Lines 744-788: the status check, the updates dict and the UPDATE.
patch_update(w) ==
    LET req == inflight[w] IN
    /\ req.pc = "read"
    /\ before' = before
    /\ IF status_invalid(req.data)
       THEN /\ rows' = rows
            /\ patch_served(w, [req EXCEPT !.pc = "done", !.code = 400])
       ELSE IF bonus_raises(req.data)
       THEN /\ rows' = rows
            /\ patch_served(w, [req EXCEPT !.pc = "done", !.code = 500])
       ELSE \E now \in RaceClock, updateOk \in BOOLEAN :
            LET res == update_referral(rows, RaceId,
                                       build_updates(req.data, RaceUsers[w], now),
                                       updateOk)
            IN  /\ rows' = res.table
                /\ inflight' =
                      [inflight EXCEPT ![w] =
                          [req EXCEPT
                              !.pc = "updated", !.now = now, !.ok = res.ok,
                              !.failed = @ \cup Failed("update", updateOk),
                              !.found = IF res.ok
                                        THEN SelectSeq(rows,
                                                 LAMBDA r : r.referral_id = RaceId)
                                        ELSE <<>>,
                              !.seq = IF res.ok
                                      THEN 1 + Cardinality({v \in DOMAIN inflight :
                                                               inflight[v].seq > 0})
                                      ELSE 0]]
                /\ UNCHANGED <<nops, last>>

\* Lines 788-799: the e-mails and the response.
patch_respond(w) ==
    LET req == inflight[w] IN
    /\ req.pc = "updated"
    /\ UNCHANGED <<rows, before>>
    /\ \E smtpOk \in (IF req.ok /\ status_changed(req.data, req.current)
                      THEN BOOLEAN ELSE {TRUE}) :
       \E alertOk \in (IF req.ok /\ status_changed(req.data, req.current)
                          /\ req.data.status = "Eligible"
                       THEN BOOLEAN ELSE {TRUE}) :
          LET res == patch_response(req.ok, req.data, req.current, smtpOk, alertOk)
          IN  patch_served(w, [req EXCEPT !.pc = "done", !.code = res.code,
                                          !.emails = res.emails])

InitRace ==
    /\ \E s \in {"Hired", "Eligible"}, now \in Clock :
          rows = <<StoredRow(RaceId, "Ana@FirstLineSchools.org", "Lead Teacher",
                             [status |-> s], now)>>
    /\ before = rows
    /\ nops = 0
    /\ inflight = [w \in DOMAIN RaceUsers |-> Idle]
    /\ last = AtRest

NextRace ==
    \/ \E w \in DOMAIN RaceUsers : patch_read(w)
    \/ \E w \in DOMAIN RaceUsers : patch_update(w)
    \/ \E w \in DOMAIN RaceUsers : patch_respond(w)

SpecRace == InitRace /\ [][NextRace]_vars

(***************************************************************************)
(* Vocabulary of the properties.                                           *)
(***************************************************************************)
CanonicalStatuses ==
    {"Submitted", "Under Review", "Candidate Applied", "Interviewing", "Hired",
     "Eligible", "Paid", "Not Hired", "Withdrawn/Non-responsive",
     "Candidate Left before 60 Days", "Ineligible"}

AdminRoutes == {"list", "patch", "delete", "archive", "unarchive", "stats", "test_rollup"}

\* The last request was an admin PATCH that got past the access gate.
PatchHandled(l) == l.op = "patch" /\ l.code \notin {401, 403}

Carries(l, k) == k \in DOMAIN l.data

\* Indices of the stored rows a referral_id names.
RowsOf(table, referral_id) == {i \in DOMAIN table : table[i].referral_id = referral_id}

\* d2 is the day n calendar days after d1, both date strings.
DaysApart(d1, d2, n) ==
    /\ strptime_ok(d1) /\ strptime_ok(d2)
    /\ toordinal(strptime(d2)) = toordinal(strptime(d1)) + n

\* C1: every stored referral with a hire_date has sixty_day_date = hire_date
\* + 60 days, and after a PATCH that cleared hire_date (null or '') the
\* sixty_day_date of the referral is cleared too.
C1_SixtyDayTracksHireDate ==
    /\ \A i \in DOMAIN rows :
          rows[i].hire_date # <<>> =>
              DaysApart(rows[i].hire_date, rows[i].sixty_day_date, 60)
    /\ (/\ PatchHandled(last) /\ last.code = 200 /\ last.failed = {}
        /\ Carries(last, "hire_date") /\ last.data.hire_date = <<>>)
       => \A i \in RowsOf(rows, last.id) :
              rows[i].hire_date = <<>> /\ rows[i].sixty_day_date = <<>>

\* C2: an admin PATCH whose status is not canonical is answered 400, leaves
\* the table as it was and sends no e-mail, whatever else the body carries.
C2_InvalidStatusPersistsNothing ==
    (/\ PatchHandled(last)
     /\ Carries(last, "status")
     /\ last.data.status \notin CanonicalStatuses)
    => (last.code = 400 /\ rows = before /\ last.emails = <<>>)

\* C2's case: a 400 for a body that pairs the bad status with a valid
\* hire_date, addressed to a stored referral.
C2_Witness ==
    /\ PatchHandled(last) /\ last.code = 400
    /\ Carries(last, "status") /\ Carries(last, "hire_date")
    /\ strptime_ok(last.data.hire_date)
    /\ RowsOf(rows, last.id) # {}

EmailsOfKind(l, kind) == {j \in DOMAIN l.emails : l.emails[j].kind = kind}

\* C3: an admin PATCH that sets status: when the status read before the
\* update differs from the new one, exactly one status-changed e-mail goes
\* to the referrer, plus exactly one payout-ready e-mail iff the new status
\* is 'Eligible'; when it is the same, or no prior status was read, no
\* e-mail is sent.  The row read is a stored row of that referral_id
\* whenever the read worked and the referral exists.
C3_NotificationsOnStatusChange ==
    (/\ PatchHandled(last) /\ last.code = 200 /\ Carries(last, "status"))
    => LET cur == last.current
           new == last.data.status
           n_status == Cardinality(EmailsOfKind(last, "status_update"))
           n_payout == Cardinality(EmailsOfKind(last, "payout_alert"))
       IN  /\ ("select" \notin last.failed /\ RowsOf(before, last.id) # {})
              => cur # <<>>
           /\ cur # <<>> => \E i \in RowsOf(before, last.id) : cur[1] = before[i]
           /\ IF cur # <<>> /\ cur[1].status # new
              THEN /\ n_status = 1
                   /\ n_payout = (IF new = "Eligible" THEN 1 ELSE 0)
                   /\ Len(last.emails) = n_status + n_payout
                   /\ \A j \in EmailsOfKind(last, "status_update") :
                         /\ last.emails[j].to = cur[1].referrer_email
                         /\ last.emails[j].new_status = new
              ELSE last.emails = <<>>

\* C3's case: a change from 'Hired' to 'Eligible' that sent both e-mails.
C3_Witness ==
    /\ PatchHandled(last) /\ last.code = 200
    /\ Carries(last, "status") /\ last.data.status = "Eligible"
    /\ last.current # <<>> /\ last.current[1].status = "Hired"
    /\ Len(last.emails) = 2

\* C4: every stored referral's status is one of the 11 canonical values,
\* and it is 'Submitted' right after the submission that stored it.
C4_StatusAlwaysCanonical ==
    /\ \A i \in DOMAIN rows : rows[i].status \in CanonicalStatuses
    /\ (last.op = "submit" /\ last.code = 200)
       => rows[Len(rows)].status = "Submitted"

\* C4's case: a referral whose status was moved on by an admin update and
\* that was archived afterwards.
C4_Witness ==
    \E i \in DOMAIN rows : rows[i].status = "Eligible" /\ rows[i].is_archived

\* The month after month m of year y, as strftime('%B %Y') writes it.
MonthAfter(y, m) ==
    IF m = 12 THEN [month |-> "January", year |-> y + 1]
    ELSE [month |-> MonthNames[m + 1], year |-> y]

\* C5: for a parseable hire_date the update writes sixty_day_date =
\* hire_date + 60 days and payout_month = the calendar month after the one
\* holding sixty_day_date, the year rolling over after December;
\* 2025-01-01 gives 2025-03-02 and 'April 2025'.
C5_PayoutMonthFollowsSixtyDay ==
    (/\ PatchHandled(last) /\ last.code = 200
     /\ Carries(last, "hire_date") /\ strptime_ok(last.data.hire_date))
    => \A i \in RowsOf(rows, last.id) :
          /\ rows[i].hire_date = last.data.hire_date
          /\ DaysApart(last.data.hire_date, rows[i].sixty_day_date, 60)
          /\ rows[i].payout_month =
                MonthAfter(rows[i].sixty_day_date[1], rows[i].sixty_day_date[2])
          /\ last.data.hire_date = <<2025, 1, 1>>
             => /\ rows[i].sixty_day_date = <<2025, 3, 2>>
                /\ rows[i].payout_month = [month |-> "April", year |-> 2025]

\* C5's case: a hire_date whose 60th day falls in December, so that the
\* payout month is January of the next year.
C5_Witness ==
    /\ PatchHandled(last) /\ last.code = 200
    /\ Carries(last, "hire_date") /\ strptime_ok(last.data.hire_date)
    /\ \E i \in RowsOf(rows, last.id) :
          /\ rows[i].sixty_day_date[2] = 12
          /\ rows[i].payout_month =
                [month |-> "January", year |-> last.data.hire_date[1] + 1]

\* C6: a stored referral's bonus_amount changes only in a successful admin
\* PATCH of that referral whose body carries bonus_amount.  (Rows keep
\* their place in the table in every request but a delete.)
C6_BonusChangesOnlyByExplicitEdit ==
    last.op # "delete"
    => \A i \in DOMAIN before :
          (i \in DOMAIN rows /\ rows[i].bonus_amount # before[i].bonus_amount)
          => /\ PatchHandled(last) /\ last.code = 200
             /\ Carries(last, "bonus_amount")
             /\ before[i].referral_id = last.id

\* C6's case: a referral submitted at 300 whose position_type an admin set
\* to 'Lead Teacher' and whose bonus is still 300.
C6_Witness ==
    /\ PatchHandled(last) /\ last.code = 200
    /\ Carries(last, "position_type") /\ ~Carries(last, "bonus_amount")
    /\ \E i \in RowsOf(rows, last.id) :
          rows[i].position_type = "Lead Teacher" /\ rows[i].bonus_amount = 300

\* C7: a successful submission stores and returns a bonus of 500 when
\* position_type is exactly 'Lead Teacher' and of 300 otherwise.
C7_BonusByPositionType ==
    (last.op = "submit" /\ last.code = 200)
    => LET expected == IF last.data.position_type = "Lead Teacher" THEN 500 ELSE 300
       IN  /\ last.body.bonus_amount = expected
           /\ rows[Len(rows)].referral_id = last.id
           /\ rows[Len(rows)].bonus_amount = expected

\* C7's case: a position_type that differs from 'Lead Teacher' in case only.
C7_Witness ==
    /\ last.op = "submit" /\ last.code = 200
    /\ last.data.position_type = "Lead teacher"
    /\ last.body.bonus_amount = 300

\* C8: no two stored referrals have the same referral_id.
C8_ReferralIdUnique ==
    \A i, j \in DOMAIN rows : i # j => rows[i].referral_id # rows[j].referral_id

\* C9: a request to an admin route whose session holds no identity is
\* answered 401, one whose identity's lower-cased e-mail is not in the
\* allowlist is answered 403, and either leaves the table as it was, sends
\* no e-mail and returns no data.
C9_AdminRoutesGated ==
    (last.op \in AdminRoutes
     /\ (last.user = NoUser \/ lower(last.user) \notin Range(ADMIN_USERS)))
    => /\ last.code = (IF last.user = NoUser THEN 401 ELSE 403)
       /\ rows = before
       /\ last.emails = <<>>
       /\ last.body = <<>>

\* C9's case: a signed-in non-admin asking to delete a stored referral.
C9_Witness ==
    /\ last.op = "delete" /\ last.user = StaffUser /\ last.code = 403
    /\ RowsOf(rows, last.id) # {}

\* C10: an admin PATCH with a well-formed body addressed to a referral_id
\* that names no stored referral is answered 404.
C10_UnknownReferralIs404 ==
    (/\ PatchHandled(last) /\ last.failed = {}
     /\ Carries(last, "status") => last.data.status \in CanonicalStatuses
     /\ Carries(last, "bonus_amount") => last.data.bonus_amount = "750"
     /\ last.data # <<>>
     /\ RowsOf(rows, last.id) = {})
    => last.code = 404

\* C11: a request is answered 500 when the insert of a submission, the
\* read behind lookup, listing or stats, or the update of an admin PATCH
\* failed.
C11_StoreFailureIs500 ==
    (\/ last.op = "submit" /\ "insert" \in last.failed
     \/ last.op \in {"lookup", "list", "stats"} /\ "select" \in last.failed
     \/ last.op = "patch" /\ "update" \in last.failed)
    => last.code = 500

\* C12: a submission or an admin status update whose store write worked is
\* answered 200 and leaves the table as the write made it, whether or not
\* each of its e-mails could be handed over.
C12_EmailFailureNeverFailsRequest ==
    (last.op \in {"submit", "patch"} /\ last.emails # <<>>)
    => /\ last.code = 200
       /\ last.op = "submit" =>
             /\ Len(rows) = Len(before) + 1
             /\ SubSeq(rows, 1, Len(before)) = before
             /\ rows[Len(rows)].referral_id = last.id
             /\ rows[Len(rows)].status = "Submitted"
             /\ last.body.referral_id = last.id
       /\ last.op = "patch" =>
             \E now \in Clock :
                rows = update_referral(before, last.id,
                                       build_updates(last.data, last.user, now),
                                       TRUE).table

\* C12's case: a status update to 'Eligible' whose e-mail to the referrer
\* could not be handed over while the payout alert could.
C12_Witness ==
    /\ PatchHandled(last) /\ last.code = 200
    /\ Len(last.emails) = 2
    /\ ~last.emails[1].delivered /\ last.emails[2].delivered
    /\ \E i \in RowsOf(rows, last.id) :
          rows[i].status = "Eligible" /\ before[i].status # "Eligible"

SubmissionFields ==
    {"referrer_name", "referrer_email", "referrer_school", "candidate_name",
     "candidate_email", "position", "position_type", "relationship"}

\* C15: a submission that lacks a required field, or carries it empty, is
\* answered 400, stores no referral and sends no e-mail.
C15_IncompleteSubmissionRejected ==
    (last.op = "submit"
     /\ \E f \in SubmissionFields : f \notin DOMAIN last.data \/ last.data[f] = "")
    => (last.code = 400 /\ rows = before /\ last.emails = <<>>)

\* C15's case: a form without 'relationship', the last field looked at,
\* arriving while a referral is stored.
C15_Witness ==
    /\ last.op = "submit" /\ last.code = 400
    /\ "relationship" \notin DOMAIN last.data
    /\ SubmissionFields \ {"relationship"} \subseteq DOMAIN last.data
    /\ rows # <<>>

\* C16: archive and unarchive leave every field but is_archived as it was,
\* and an admin PATCH leaves is_archived as it was.
C16_ArchivedFlagIndependent ==
    /\ last.op \in {"archive", "unarchive"}
       => /\ DOMAIN rows = DOMAIN before
          /\ \A i \in DOMAIN rows :
                [rows[i] EXCEPT !.is_archived = before[i].is_archived] = before[i]
    /\ last.op = "patch"
       => /\ DOMAIN rows = DOMAIN before
          /\ \A i \in DOMAIN rows : rows[i].is_archived = before[i].is_archived

\* C16's case: the status of an archived referral moved by a PATCH, the
\* referral still archived.
C16_Witness ==
    /\ PatchHandled(last) /\ last.code = 200 /\ Carries(last, "status")
    /\ \E i \in RowsOf(rows, last.id) :
          /\ rows[i].is_archived /\ before[i].is_archived
          /\ rows[i].status # before[i].status

\* C17: an admin PATCH of a stored referral whose hire_date is non-empty
\* and names no calendar day is answered 200, stores the status and the
\* admin_notes of the same body and leaves sixty_day_date and payout_month
\* as they were.
C17_UnparseableHireDateSwallowed ==
    (/\ PatchHandled(last) /\ last.failed = {}
     /\ Carries(last, "hire_date")
     /\ last.data.hire_date # <<>> /\ ~strptime_ok(last.data.hire_date)
     /\ Carries(last, "status") => last.data.status \in CanonicalStatuses
     /\ Carries(last, "bonus_amount") => last.data.bonus_amount = "750"
     /\ RowsOf(before, last.id) # {})
    => /\ last.code = 200
       /\ \A i \in RowsOf(before, last.id) :
             /\ Carries(last, "status") => rows[i].status = last.data.status
             /\ Carries(last, "admin_notes") => rows[i].admin_notes = last.data.admin_notes
             /\ rows[i].sixty_day_date = before[i].sixty_day_date
             /\ rows[i].payout_month = before[i].payout_month

\* C18: an admin PATCH moves a referral's status to 'Eligible' only from
\* 'Hired', and to 'Paid' only from 'Eligible'.
C18_TransitionsFollowLifecycle ==
    last.op = "patch"
    => \A i \in DOMAIN rows \cap DOMAIN before :
          /\ (rows[i].status = "Eligible" /\ before[i].status # "Eligible")
             => before[i].status = "Hired"
          /\ (rows[i].status = "Paid" /\ before[i].status # "Paid")
             => before[i].status = "Eligible"

\* C20: a status-changed e-mail whose new status is canonical carries that
\* status's own sentence, never the generic 'The status has been updated
\* to: ...'.
C20_EveryStatusHasTemplate ==
    \A j \in EmailsOfKind(last, "status_update") :
        last.emails[j].new_status \in CanonicalStatuses
        => last.emails[j].message = <<"template", last.emails[j].new_status>>

\* Stored rows that are not archived and whose status is in S, and the sum
\* of their bonus_amount.
Counted(S) == {i \in DOMAIN rows : ~rows[i].is_archived /\ rows[i].status \in S}

RECURSIVE BonusOver(_, _)
BonusOver(table, idx) ==
    IF idx = {} THEN 0
    ELSE LET i == CHOOSE x \in idx : TRUE
         IN  table[i].bonus_amount + BonusOver(table, idx \ {i})

\* C13: the stats count and sum the referrals that are not archived and no
\* others; the admin listing returns every stored referral, archived or
\* not; a served archive sets the flag of the referral and a served
\* unarchive clears it, so that it is counted again.  (Stats and listing
\* read: those whose read of the table worked.)
C13_ArchivedOutOfStatsOnly ==
    /\ (last.op = "stats" /\ last.code = 200 /\ last.failed = {})
       => /\ last.body.total = Cardinality(Counted(CanonicalStatuses))
          /\ last.body.pending_review = Cardinality(Counted({"Submitted", "Under Review"}))
          /\ last.body.in_progress =
                Cardinality(Counted({"Candidate Applied", "Interviewing"}))
          /\ last.body.hired_pending = Cardinality(Counted({"Hired", "Eligible"}))
          /\ last.body.paid_count = Cardinality(Counted({"Paid"}))
          /\ last.body.not_hired =
                Cardinality(Counted({"Not Hired", "Candidate Left before 60 Days",
                                     "Ineligible"}))
          /\ last.body.bonuses_paid = BonusOver(rows, Counted({"Paid"}))
          /\ last.body.bonuses_pending = BonusOver(rows, Counted({"Hired", "Eligible"}))
    /\ (last.op = "list" /\ last.code = 200 /\ last.failed = {})
       => /\ Len(last.body.referrals) = Len(rows)
          /\ \A i \in DOMAIN rows :
                \E j \in DOMAIN last.body.referrals : last.body.referrals[j] = rows[i]
    /\ (last.op = "archive" /\ last.code = 200)
       => \A i \in RowsOf(rows, last.id) : rows[i].is_archived
    /\ (last.op = "unarchive" /\ last.code = 200)
       => \A i \in RowsOf(rows, last.id) : ~rows[i].is_archived

\* C13's case: the stats of a table that holds an archived 'Paid' referral
\* beside one that is not archived.
C13_Witness ==
    /\ last.op = "stats" /\ last.code = 200 /\ last.failed = {}
    /\ \E i \in DOMAIN rows : rows[i].is_archived /\ rows[i].status = "Paid"
    /\ \E i \in DOMAIN rows : ~rows[i].is_archived
    /\ last.body.total = 1 /\ last.body.bonuses_paid = 0

\* C14: a served lookup returns exactly the stored referrals whose referrer
\* e-mail equals the queried one without regard to case, each without
\* admin_notes, with total_pending the sum of bonus_amount over those in a
\* pending status and total_paid the sum over those in 'Paid'.
C14_LookupByReferrerEmail ==
    (last.op = "lookup" /\ last.code = 200 /\ last.failed = {})
    => LET mine == {i \in DOMAIN rows :
                       lower(rows[i].referrer_email) = lower(last.data.email)}
           pending == {"Submitted", "Under Review", "Candidate Applied",
                       "Interviewing", "Hired", "Eligible"}
       IN  /\ Len(last.body.referrals) = Cardinality(mine)
           /\ \A i \in mine : \E j \in DOMAIN last.body.referrals :
                 last.body.referrals[j] = Without(rows[i], "admin_notes")
           /\ \A j \in DOMAIN last.body.referrals :
                 "admin_notes" \notin DOMAIN last.body.referrals[j]
           /\ last.body.total_pending =
                 BonusOver(rows, {i \in mine : rows[i].status \in pending})
           /\ last.body.total_paid =
                 BonusOver(rows, {i \in mine : rows[i].status = "Paid"})

RollupsOf(l) == {j \in DOMAIN l.emails : l.emails[j].kind = "weekly_rollup"}

\* A stored referral that calls for action on the day `now`: awaiting
\* review, ready for payout, or hired with its 60-day date within the 14
\* days from now.
CallsForAction(r, now) ==
    \/ r.status \in {"Submitted", "Under Review"}
    \/ r.status = "Eligible"
    \/ /\ r.status = "Hired" /\ r.sixty_day_date # <<>>
       /\ \E n \in 0..14 : DaysApart(now, r.sixty_day_date, n)

\* C19: a rollup over no referrals has all six sections empty and the 'all
\* caught up' item; in every rollup that item is present exactly when the
\* needs-review, ready-for-payout and upcoming-60-day sections are empty,
\* which, when the table was read, is when no stored referral calls for
\* action.
C19_AllCaughtUp ==
    \A j \in RollupsOf(last) :
        LET m == last.emails[j].message
            caught_up == "all_caught_up" \in m.action_items
        IN  /\ last.emails[j].referral = <<>>
               => /\ m.new_referrals = <<>> /\ m.needs_review = <<>>
                  /\ m.interviewing = <<>> /\ m.hired_waiting = <<>>
                  /\ m.upcoming_eligible = <<>> /\ m.ready_for_payout = <<>>
                  /\ caught_up
            /\ caught_up <=> (/\ m.needs_review = <<>>
                              /\ m.ready_for_payout = <<>>
                              /\ m.upcoming_eligible = <<>>)
            /\ last.failed = {}
               => /\ Len(last.emails[j].referral) = Len(rows)
                  /\ caught_up <=>
                        ~\E i \in DOMAIN rows : CallsForAction(rows[i], last.data.now)

\* C19's case: a rollup whose only call for action is a 60-day date coming
\* up, the needs-review and ready-for-payout sections empty.
C19_Witness ==
    \E j \in RollupsOf(last) :
        LET m == last.emails[j].message
        IN  /\ m.needs_review = <<>> /\ m.ready_for_payout = <<>>
            /\ m.upcoming_eligible # <<>>
            /\ "all_caught_up" \notin m.action_items

\* C24: every stored referral has sixty_day_date and payout_month both
\* empty or both set, and when set payout_month names the calendar month
\* after the one of sixty_day_date.
C24_DerivedDatesGoTogether ==
    \A i \in DOMAIN rows :
        /\ rows[i].sixty_day_date = <<>> <=> rows[i].payout_month = NoPayoutMonth
        /\ rows[i].sixty_day_date # <<>>
           => rows[i].payout_month =
                 MonthAfter(rows[i].sixty_day_date[1], rows[i].sixty_day_date[2])

\* C24's case: a referral whose hire_date was set and then cleared by a
\* second PATCH, both derived fields still set.
C24_Witness ==
    /\ PatchHandled(last) /\ last.code = 200
    /\ Carries(last, "hire_date") /\ last.data.hire_date = <<>>
    /\ \E i \in RowsOf(rows, last.id) :
          /\ before[i].hire_date # <<>> /\ rows[i].hire_date = <<>>
          /\ rows[i].sixty_day_date # <<>>
          /\ rows[i].payout_month # NoPayoutMonth

\* C25: every e-mail of an admin PATCH carries the referral as a stored row
\* held it before the update: its bonus_amount, hire_date, sixty_day_date
\* and payout_month are the pre-update ones, whatever the body changed.
C25_NotificationsCarryPriorRecord ==
    (PatchHandled(last) /\ last.emails # <<>>)
    => \A j \in DOMAIN last.emails :
          \E i \in RowsOf(before, last.id) :
              /\ last.emails[j].referral = <<before[i]>>
              /\ last.emails[j].referral[1].bonus_amount = before[i].bonus_amount
              /\ last.emails[j].referral[1].hire_date = before[i].hire_date
              /\ last.emails[j].referral[1].sixty_day_date = before[i].sixty_day_date
              /\ last.emails[j].referral[1].payout_month = before[i].payout_month

\* C25's case: one PATCH set the status to 'Eligible' and the bonus to 750;
\* both e-mails carry the bonus the referral had before.
C25_Witness ==
    /\ PatchHandled(last) /\ last.code = 200 /\ Len(last.emails) = 2
    /\ Carries(last, "status") /\ Carries(last, "bonus_amount")
    /\ \E i \in RowsOf(rows, last.id) :
          /\ rows[i].bonus_amount = 750 /\ before[i].bonus_amount # 750
          /\ \A j \in DOMAIN last.emails :
                last.emails[j].referral[1].bonus_amount = before[i].bonus_amount

\* The workers whose UPDATE was applied, and the one applied last.
Writers == {w \in DOMAIN inflight : inflight[w].seq > 0}

LastWriter(w) == w \in Writers /\ \A v \in Writers : inflight[v].seq <= inflight[w].seq

\* C21: with two admin PATCH status updates of one referral in flight, a
\* request whose UPDATE was applied is answered 200 whatever the other did,
\* and the stored status, status_updated_at and status_updated_by are all
\* three the ones of the request whose UPDATE was applied last.
C21_LastWriteWins ==
    \A w \in DOMAIN inflight :
        /\ (inflight[w].pc = "done" /\ w \in Writers) => inflight[w].code = 200
        /\ LastWriter(w)
           => \A i \in RowsOf(rows, RaceId) :
                 /\ rows[i].status = inflight[w].data.status
                 /\ rows[i].status_updated_at = inflight[w].now
                 /\ rows[i].status_updated_by = RaceUsers[w]

\* C21's case: both requests read the referral before either UPDATE, both
\* UPDATEs were applied, and the two differ in status, instant and admin.
C21_Witness ==
    /\ \A w \in DOMAIN inflight :
          /\ inflight[w].pc = "done" /\ w \in Writers
          /\ inflight[w].current = <<before[1]>>
    /\ inflight[1].data.status # inflight[2].data.status
    /\ inflight[1].now # inflight[2].now
    /\ inflight[1].seq > inflight[2].seq

\* The payout-ready e-mails handed over for the referral, and the UPDATEs
\* that changed its stored status from another value to 'Eligible'.
PayoutAlerts ==
    {<<w, j>> \in (DOMAIN inflight) \X (1..2) :
        /\ j \in DOMAIN inflight[w].emails
        /\ inflight[w].emails[j].kind = "payout_alert"
        /\ inflight[w].emails[j].delivered}

EligibleTransitions ==
    {w \in Writers :
        /\ inflight[w].data.status = "Eligible"
        /\ \E i \in DOMAIN inflight[w].found : inflight[w].found[i].status # "Eligible"}

\* C22: the payout-ready e-mails for a referral are never more than the
\* times its stored status changed from another value to 'Eligible'.
C22_AlertsBoundedByTransitions ==
    Cardinality(PayoutAlerts) <= Cardinality(EligibleTransitions)

\* C23: a request has e-mails only once its own UPDATE was applied and
\* update_referral returned True; a request whose UPDATE failed has none.
C23_NotificationsFollowStoreUpdate ==
    \A w \in DOMAIN inflight :
        /\ inflight[w].emails # <<>>
           => /\ inflight[w].ok /\ w \in Writers
              /\ inflight[w].code = 200
              /\ "update" \notin inflight[w].failed
        /\ (inflight[w].pc \in {"updated", "done"} /\ ~inflight[w].ok)
           => inflight[w].emails = <<>>

\* C23's case: a request that changes the status and whose UPDATE failed was
\* answered, while the other request's UPDATE was applied and it sent e-mails.
C23_Witness ==
    \E w, v \in DOMAIN inflight :
        /\ inflight[w].pc = "done" /\ ~inflight[w].ok
        /\ "update" \in inflight[w].failed
        /\ status_changed(inflight[w].data, inflight[w].current)
        /\ inflight[w].code = 404
        /\ inflight[v].pc = "done" /\ inflight[v].emails # <<>>

====
